---- MODULE Spec2Model ----
(***************************************************************************)
(* A model of rest.py: the DynamicTable / Database engine and the Flask    *)
(* route handlers that drive it.                                           *)
(*                                                                         *)
(* Python values are named by their repr ("25", "True", "'Alice'",         *)
(* "None"); TypeOf gives the class of a value and isinstance is Python's   *)
(* isinstance on the classes str, int and bool (bool is a subclass of      *)
(* int).  A column is the tuple <<name, type>>, a row (a dict) is a        *)
(* function from its keys to values, a table is the record of its          *)
(* column_info list and its rows list, and database.tables (a dict) is a   *)
(* function from the names it holds to tables.                             *)
(***************************************************************************)
EXTENDS Integers, Sequences, FiniteSets, TLC

VARIABLES
    tables,   \* database.tables: table name -> DynamicTable
    last,     \* the last request served and the response it got
    \* The objects of one table, for the handlers that run in parallel:
    self_column_info,  \* the list self.column_info
    self_rows,         \* self.rows: the list object it is bound to
    lists,             \* the row lists: list object -> its row objects
    dicts,             \* the rows: dict object -> its keys and values
    thread,            \* each handler thread: its request, place and locals
    \* The catalog and its tables as objects, for the handlers that resolve
    \* a name in parallel:
    database_tables,   \* database.tables: table name -> DynamicTable object
    heap_tables,       \* the DynamicTable objects: the lists each one holds
    heap_lists,        \* the list objects: their elements
    handler            \* each handler thread: its request, place and locals

vars == <<tables, last>>
cvars == <<self_column_info, self_rows, lists, dicts, thread>>
catvars == <<database_tables, heap_tables, heap_lists, handler>>

(***************************************************************************)
(* Bounds of the exploration.                                              *)
(***************************************************************************)
MaxRows == 2   \* add_row is explored on tables with fewer rows than this,
               \* update_row on tables with at most this many rows
MaxCols == 2   \* add_column is explored on tables with fewer columns
MaxLists == 6  \* a request that creates list objects is taken up while the
               \* lists it creates keep their number within this

(***************************************************************************)
(* Python values.                                                          *)
(***************************************************************************)
None == "None"
StrValues == {"'Alice'", "'Bob'", "'Charlie'",
              "'New York'", "'San Francisco'", "'Los Angeles'"}
IntValues == {"1", "22", "25", "30"}
BoolValues == {"True", "False"}

TypeOf(v) ==
    IF v \in StrValues THEN "str"
    ELSE IF v \in BoolValues THEN "bool"
    ELSE IF v \in IntValues THEN "int"
    ELSE "NoneType"

\* isinstance(value, column_type): bool is a subclass of int.
isinstance(value, column_type) ==
    \/ TypeOf(value) = column_type
    \/ (column_type = "int" /\ TypeOf(value) = "bool")

\* Python's == and hash agree on True/1 and on False/0: PyKey names the
\* equivalence class a value belongs to as a set member or a dict key.
PyKey(v) == IF v = "True" THEN "1" ELSE IF v = "False" THEN "0" ELSE v

(***************************************************************************)
(* Inputs of the requests.                                                 *)
(***************************************************************************)
TableNames == {"Table1"}
InputColumns == {<<"Name", "str">>, <<"Name", "int">>, <<"Age", "int">>}
InputValues == {"'Alice'", "1", "True"}
AllColNames == {"Name", "Age", "City", "IsStudent"}

\* The lists of a request: none, one or two elements.
Pairs(S) == {<<>>} \cup {<<x>> : x \in S} \cup {<<x, y>> : x \in S, y \in S}

ColumnLists == Pairs(InputColumns)
ValueLists == Pairs(InputValues)

(***************************************************************************)
(* DynamicTable                                                            *)
(***************************************************************************)
\* [col[0] for col in self.column_info]
names_of(column_info) == [i \in 1..Len(column_info) |-> column_info[i][1]]

name_set(column_info) == {column_info[i][1] : i \in 1..Len(column_info)}

DynamicTable(column_info) == [column_info |-> column_info, rows |-> <<>>]

Ok(tbl) == [tbl |-> tbl, exc |-> "", msg |-> ""]
Raise(tbl, exc, msg) == [tbl |-> tbl, exc |-> exc, msg |-> msg]

\* row[column_name] = None
dict_set(row, key, value) ==
    [k \in DOMAIN row \cup {key} |-> IF k = key THEN value ELSE row[k]]

\* del row[column_name], for a key the row holds
dict_del(row, key) == [k \in DOMAIN row \ {key} |-> row[k]]

\* dict(zip(names, values)): a later pair replaces an earlier one of its key
dict_zip(names, values) ==
    LET n == IF Len(names) < Len(values) THEN Len(names) ELSE Len(values)
        lastOf(k) == CHOOSE i \in 1..n :
                        names[i] = k /\ \A j \in (i+1)..n : names[j] # k
    IN [k \in {names[i] : i \in 1..n} |-> values[lastOf(k)]]

\* add_column that puts the new column first
add_column_first(tbl, column_name, column_type) ==
    IF column_name \in name_set(tbl.column_info)
    THEN Raise(tbl, "ValueError", "column already exists")
    ELSE Ok([column_info |-> <<<<column_name, column_type>>>> \o tbl.column_info,
             rows |-> [i \in 1..Len(tbl.rows) |->
                          dict_set(tbl.rows[i], column_name, None)]])

add_column(tbl, column_name, column_type) ==
    IF column_name \in name_set(tbl.column_info)
    THEN Raise(tbl, "ValueError", "column already exists")
    ELSE Ok([column_info |-> Append(tbl.column_info, <<column_name, column_type>>),
             rows |-> [i \in 1..Len(tbl.rows) |->
                          dict_set(tbl.rows[i], column_name, None)]])

\* The loop of delete_column stops with KeyError at the first row that does
\* not hold the key; the column and the keys of the rows before it are gone.
delete_column(tbl, column_name) ==
    IF column_name \notin name_set(tbl.column_info)
    THEN Raise(tbl, "ValueError", "column does not exist")
    ELSE LET index == CHOOSE i \in 1..Len(tbl.column_info) :
                         /\ tbl.column_info[i][1] = column_name
                         /\ \A j \in 1..(i-1) : tbl.column_info[j][1] # column_name
             column_info == [i \in 1..(Len(tbl.column_info) - 1) |->
                                IF i < index THEN tbl.column_info[i]
                                ELSE tbl.column_info[i+1]]
             missing == {i \in 1..Len(tbl.rows) : column_name \notin DOMAIN tbl.rows[i]}
             stop == IF missing = {} THEN Len(tbl.rows) + 1
                     ELSE CHOOSE i \in missing : \A j \in missing : i <= j
             rows == [i \in 1..Len(tbl.rows) |->
                         IF i < stop THEN dict_del(tbl.rows[i], column_name)
                         ELSE tbl.rows[i]]
             new == [column_info |-> column_info, rows |-> rows]
         IN IF missing = {} THEN Ok(new)
            ELSE Raise(new, "KeyError", "row has no such key")

\* The validation loop of add_row and update_row: the position of the first
\* value that is no instance of its column's type, or 0.
first_invalid(column_info, values) ==
    LET bad == {i \in 1..Len(column_info) :
                   ~isinstance(values[i], column_info[i][2])}
    IN IF bad = {} THEN 0 ELSE CHOOSE i \in bad : \A j \in bad : i <= j

add_row(tbl, values) ==
    IF Len(values) # Len(tbl.column_info)
    THEN Raise(tbl, "ValueError", "number of values")
    ELSE IF first_invalid(tbl.column_info, values) # 0
    THEN Raise(tbl, "ValueError", "invalid type")
    ELSE Ok([tbl EXCEPT !.rows =
                Append(@, dict_zip(names_of(tbl.column_info), values))])

\* row_index is Python's, counted from 0.
update_row_arity_first(tbl, row_index, values) ==
    IF Len(values) # Len(tbl.column_info)
    THEN Raise(tbl, "ValueError", "number of values")
    ELSE IF row_index < 0 \/ row_index >= Len(tbl.rows)
    THEN Raise(tbl, "IndexError", "row index out of bounds")
    ELSE IF first_invalid(tbl.column_info, values) # 0
    THEN Raise(tbl, "ValueError", "invalid type")
    ELSE Ok([tbl EXCEPT !.rows[row_index + 1] =
                dict_zip(names_of(tbl.column_info), values)])

\* update_row whose index check refuses the last row
update_row_short(tbl, row_index, values) ==
    IF row_index < 0 \/ row_index >= Len(tbl.rows) - 1
    THEN Raise(tbl, "IndexError", "row index out of bounds")
    ELSE IF Len(values) # Len(tbl.column_info)
    THEN Raise(tbl, "ValueError", "number of values")
    ELSE IF first_invalid(tbl.column_info, values) # 0
    THEN Raise(tbl, "ValueError", "invalid type")
    ELSE Ok([tbl EXCEPT !.rows[row_index + 1] =
                dict_zip(names_of(tbl.column_info), values)])

update_row(tbl, row_index, values) ==
    IF row_index < 0 \/ row_index >= Len(tbl.rows)
    THEN Raise(tbl, "IndexError", "row index out of bounds")
    ELSE IF Len(values) # Len(tbl.column_info)
    THEN Raise(tbl, "ValueError", "number of values")
    ELSE IF first_invalid(tbl.column_info, values) # 0
    THEN Raise(tbl, "ValueError", "invalid type")
    ELSE Ok([tbl EXCEPT !.rows[row_index + 1] =
                dict_zip(names_of(tbl.column_info), values)])

\* delete_row that removes the row before the one asked for
delete_row_before(tbl, row_index) ==
    IF row_index >= Len(tbl.rows)
    THEN Raise(tbl, "IndexError", "row index not found")
    ELSE Ok([tbl EXCEPT !.rows =
                [i \in 1..(Len(tbl.rows) - 1) |->
                    IF i < row_index THEN tbl.rows[i] ELSE tbl.rows[i+1]]])

\* delete_row that takes len(rows) for an index of the list
delete_row_past_end(tbl, row_index) ==
    IF row_index > Len(tbl.rows)
    THEN Raise(tbl, "IndexError", "row index not found")
    ELSE Ok([tbl EXCEPT !.rows =
                [i \in 1..(Len(tbl.rows) - 1) |->
                    IF i <= row_index THEN tbl.rows[i] ELSE tbl.rows[i+1]]])

\* del dynamic_table.rows[row_index], row_index >= 0 (the route's <int:...>
\* converter matches no sign).
delete_row(tbl, row_index) ==
    IF row_index >= Len(tbl.rows)
    THEN Raise(tbl, "IndexError", "row index not found")
    ELSE Ok([tbl EXCEPT !.rows =
                [i \in 1..(Len(tbl.rows) - 1) |->
                    IF i <= row_index THEN tbl.rows[i] ELSE tbl.rows[i+1]]])

\* tuple(row[column] for column, _ in self.column_info), as a set member
key_values(row, column_info) ==
    [j \in 1..Len(column_info) |-> PyKey(row[column_info[j][1]])]

RECURSIVE rd_scan_drop_one(_, _, _, _, _)
rd_scan_drop_one(tbl, i, seen_rows, unique_rows, dropped) ==
    IF i > Len(tbl.rows) THEN Ok([tbl EXCEPT !.rows = unique_rows])
    ELSE LET row == tbl.rows[i] IN
         IF ~(name_set(tbl.column_info) \subseteq DOMAIN row)
         THEN Raise(tbl, "KeyError", "row has no such key")
         ELSE LET kv == key_values(row, tbl.column_info) IN
              IF kv \in seen_rows /\ ~dropped
              THEN rd_scan_drop_one(tbl, i + 1, seen_rows, unique_rows, TRUE)
              ELSE rd_scan_drop_one(tbl, i + 1, seen_rows \cup {kv},
                                    Append(unique_rows, row), dropped)

\* remove_duplicates that stops dropping after the first duplicate it finds
remove_duplicates_drop_one(tbl) == rd_scan_drop_one(tbl, 1, {}, <<>>, FALSE)

RECURSIVE rd_scan(_, _, _, _)
rd_scan(tbl, i, seen_rows, unique_rows) ==
    IF i > Len(tbl.rows) THEN Ok([tbl EXCEPT !.rows = unique_rows])
    ELSE LET row == tbl.rows[i] IN
         IF ~(name_set(tbl.column_info) \subseteq DOMAIN row)
         THEN Raise(tbl, "KeyError", "row has no such key")
         ELSE LET kv == key_values(row, tbl.column_info) IN
              IF kv \in seen_rows
              THEN rd_scan(tbl, i + 1, seen_rows, unique_rows)
              ELSE rd_scan(tbl, i + 1, seen_rows \cup {kv}, Append(unique_rows, row))

remove_duplicates(tbl) == rd_scan(tbl, 1, {}, <<>>)

(***************************************************************************)
(* Database                                                                *)
(***************************************************************************)
dict_put(d, key, value) ==
    [k \in DOMAIN d \cup {key} |-> IF k = key THEN value ELSE d[k]]

\* add_table that binds the name whether or not it is taken
Database_add_table_replace(tbls, table_name, column_info) ==
    Ok(dict_put(tbls, table_name, DynamicTable(column_info)))

Database_add_table(tbls, table_name, column_info) ==
    IF table_name \in DOMAIN tbls
    THEN Raise(tbls, "ValueError", "table already exists")
    ELSE Ok(dict_put(tbls, table_name, DynamicTable(column_info)))

\* remove_table that leaves the binding in place
Database_remove_table_keep(tbls, table_name) ==
    IF table_name \notin DOMAIN tbls
    THEN Raise(tbls, "ValueError", "table does not exist")
    ELSE Ok(tbls)

Database_remove_table(tbls, table_name) ==
    IF table_name \notin DOMAIN tbls
    THEN Raise(tbls, "ValueError", "table does not exist")
    ELSE Ok([k \in DOMAIN tbls \ {table_name} |-> tbls[k]])

(***************************************************************************)
(* The state at start-up: lines 271-287 fill the table "Table1".           *)
(***************************************************************************)
table_info == << <<"Name", "str">>, <<"Age", "int">>,
                 <<"City", "str">>, <<"IsStudent", "bool">> >>

DemoRows == << <<"'Alice'", "25", "'New York'", "False">>,
               <<"'Bob'", "30", "'San Francisco'", "True">>,
               <<"'Alice'", "25", "'New York'", "False">>,
               <<"'Charlie'", "22", "'Los Angeles'", "True">> >>

RECURSIVE add_rows(_, _, _)
add_rows(tbl, rowlist, i) ==
    IF i > Len(rowlist) THEN tbl
    ELSE add_rows(add_row(tbl, rowlist[i]).tbl, rowlist, i + 1)

table == add_rows(DynamicTable(table_info), DemoRows, 1)

(***************************************************************************)
(* The route handlers.  `last` logs the request served last and its        *)
(* response: the operation, the table and the row index it addressed, the  *)
(* status and, for an exception, its class and message; the payload        *)
(* (column_info, column_name, column_type, values) is logged when the      *)
(* request succeeded.  An exception the handler does not catch is a 500.   *)
(***************************************************************************)
UpdateIndexes == 0..MaxRows
DeleteIndexes == -1..Len(DemoRows)

NoArgs == [op |-> "", table_name |-> "", column_info |-> <<>>,
           column_name |-> "", column_type |-> "", values |-> <<>>,
           row_index |-> 0, status |-> 0, exc |-> "", msg |-> ""]

Failed(req, status, exc, msg) ==
    [NoArgs EXCEPT !.op = req.op, !.table_name = req.table_name,
                   !.row_index = req.row_index,
                   !.status = status, !.exc = exc, !.msg = msg]

Respond(req, status, r) ==
    IF r.exc = "" THEN [req EXCEPT !.status = status]
    ELSE Failed(req, status, r.exc, r.msg)

NotFound(req) == Failed(req, 404, "", "table not found")

\* <int:row_index> in a route's rule matches digits only: a URL with a
\* signed number matches no rule and is answered 404 without a handler.
int_converter(row_index) == row_index >= 0

Threads == {1, 2}

IdleThread ==
    [pc |-> "idle", op |-> "", column_name |-> "", column_type |-> "",
     values |-> <<>>, row_index |-> 0,
     it_list |-> 0, it_i |-> 0, validated |-> <<>>, row |-> <<>>,
     seen_rows |-> {}, unique_rows |-> <<>>, index |-> 0,
     status |-> 0, exc |-> ""]

IdleHandler ==
    [pc |-> "idle", op |-> "", table_name |-> "", column_info |-> <<>>,
     column_name |-> "", column_type |-> "", values |-> <<>>, row_index |-> 0,
     dynamic_table |-> 0, status |-> 0, exc |-> ""]

\* Lines 271-287: database.tables = {"Table1": table}.  The objects of
\* "Table1": its rows list is list 1, holding the dicts 1..4.  In the
\* catalog of objects, table is object 1, table_info is list 1 and
\* table.rows is list 2.
StartUp ==
    /\ tables = [n \in {"Table1"} |-> table]
    /\ last = NoArgs
    /\ self_column_info = table.column_info
    /\ self_rows = 1
    /\ lists = << [i \in 1..Len(table.rows) |-> i] >>
    /\ dicts = table.rows
    /\ thread = [t \in Threads |-> IdleThread]
    /\ database_tables = [n \in {"Table1"} |-> 1]
    /\ heap_tables = << [column_info |-> 1, rows |-> 2] >>
    /\ heap_lists = << table.column_info, table.rows >>
    /\ handler = [t \in Threads |-> IdleHandler]

Init == StartUp

route_add_table(table_name, column_info) ==
    LET req == [NoArgs EXCEPT !.op = "add_table", !.table_name = table_name,
                              !.column_info = column_info]
        r == Database_add_table(tables, table_name, column_info)
    IN IF column_info = <<>>
       THEN /\ last' = Failed(req, 400, "", "required")
            /\ UNCHANGED tables
       ELSE /\ tables' = r.tbl
            /\ last' = Respond(req, IF r.exc = "" THEN 201 ELSE 400, r)

route_remove_table(table_name) ==
    LET req == [NoArgs EXCEPT !.op = "remove_table", !.table_name = table_name]
        r == Database_remove_table(tables, table_name)
    IN IF table_name \notin DOMAIN tables
       THEN last' = NotFound(req) /\ UNCHANGED tables
       ELSE /\ tables' = r.tbl
            /\ last' = Respond(req, IF r.exc = "" THEN 200 ELSE 400, r)

\* What every table route does with the outcome r of the table's method:
\* the handler catches the classes in `caught`, anything else is a 500.
Serve(req, r, success, caught, caught_status) ==
    /\ tables' = [tables EXCEPT ![req.table_name] = r.tbl]
    /\ last' = Respond(req, IF r.exc = "" THEN success
                            ELSE IF r.exc \in caught THEN caught_status
                            ELSE 500, r)

route_add_row(table_name, values) ==
    LET req == [NoArgs EXCEPT !.op = "add_row", !.table_name = table_name,
                              !.values = values]
    IN IF table_name \notin DOMAIN tables
       THEN last' = NotFound(req) /\ UNCHANGED tables
       ELSE /\ Len(tables[table_name].rows) < MaxRows
            /\ Serve(req, add_row(tables[table_name], values),
                     201, {"ValueError"}, 400)

route_update_row(table_name, row_index, values) ==
    LET req == [NoArgs EXCEPT !.op = "update_row", !.table_name = table_name,
                              !.row_index = row_index, !.values = values]
    IN IF table_name \notin DOMAIN tables
       THEN last' = NotFound(req) /\ UNCHANGED tables
       ELSE /\ Len(tables[table_name].rows) <= MaxRows
            /\ Serve(req, update_row(tables[table_name], row_index, values),
                     200, {"ValueError", "IndexError"}, 400)

route_delete_row(table_name, row_index) ==
    LET req == [NoArgs EXCEPT !.op = "delete_row", !.table_name = table_name,
                              !.row_index = row_index]
    IN IF ~int_converter(row_index)
       THEN last' = Failed(req, 404, "", "url not found") /\ UNCHANGED tables
       ELSE IF table_name \notin DOMAIN tables
       THEN last' = NotFound(req) /\ UNCHANGED tables
       ELSE Serve(req, delete_row(tables[table_name], row_index),
                  200, {"IndexError"}, 404)

route_add_column(table_name, column_name, column_type) ==
    LET req == [NoArgs EXCEPT !.op = "add_column", !.table_name = table_name,
                              !.column_name = column_name,
                              !.column_type = column_type]
    IN IF table_name \notin DOMAIN tables
       THEN last' = NotFound(req) /\ UNCHANGED tables
       ELSE /\ Len(tables[table_name].column_info) < MaxCols
            /\ Serve(req, add_column(tables[table_name], column_name, column_type),
                     201, {"ValueError"}, 400)

route_delete_column(table_name, column_name) ==
    LET req == [NoArgs EXCEPT !.op = "delete_column", !.table_name = table_name,
                              !.column_name = column_name]
    IN IF table_name \notin DOMAIN tables
       THEN last' = NotFound(req) /\ UNCHANGED tables
       ELSE Serve(req, delete_column(tables[table_name], column_name),
                  200, {"ValueError"}, 400)

route_remove_duplicates(table_name) ==
    LET req == [NoArgs EXCEPT !.op = "remove_duplicates", !.table_name = table_name]
    IN IF table_name \notin DOMAIN tables
       THEN last' = NotFound(req) /\ UNCHANGED tables
       ELSE Serve(req, remove_duplicates(tables[table_name]),
                  200, {"ValueError"}, 400)

\* One request at a time, each served to its end (a single-threaded host).
AddTable ==
    /\ \E n \in TableNames, c \in ColumnLists : route_add_table(n, c)
    /\ UNCHANGED <<cvars, catvars>>
RemoveTable ==
    /\ \E n \in TableNames : route_remove_table(n)
    /\ UNCHANGED <<cvars, catvars>>
AddRow ==
    /\ \E n \in TableNames, v \in ValueLists : route_add_row(n, v)
    /\ UNCHANGED <<cvars, catvars>>
UpdateRow ==
    /\ \E n \in TableNames, i \in UpdateIndexes, v \in ValueLists :
          route_update_row(n, i, v)
    /\ UNCHANGED <<cvars, catvars>>
DeleteRow ==
    /\ \E n \in TableNames, i \in DeleteIndexes : route_delete_row(n, i)
    /\ UNCHANGED <<cvars, catvars>>
AddColumn ==
    /\ \E n \in TableNames, c \in InputColumns : route_add_column(n, c[1], c[2])
    /\ UNCHANGED <<cvars, catvars>>
DeleteColumn ==
    /\ \E n \in TableNames, c \in AllColNames : route_delete_column(n, c)
    /\ UNCHANGED <<cvars, catvars>>
RemoveDuplicates ==
    /\ \E n \in TableNames : route_remove_duplicates(n)
    /\ UNCHANGED <<cvars, catvars>>

Next ==
    \/ AddTable
    \/ RemoveTable
    \/ AddRow
    \/ UpdateRow
    \/ DeleteRow
    \/ AddColumn
    \/ DeleteColumn
    \/ RemoveDuplicates

Spec == Init /\ [][Next]_vars

(***************************************************************************)
(* Properties of the sequential engine (specification Spec).               *)
(***************************************************************************)
\* The types a table declares for a key: with unique column names, the one
\* type of the column of that name.
declared_types(column_info, key) ==
    {column_info[j][2] : j \in {j \in 1..Len(column_info) : column_info[j][1] = key}}

\* C1: in every reachable state, every row of every table in the catalog has
\* exactly the table's current column names as its key set.
C1_Lockstep ==
    \A n \in DOMAIN tables :
        \A i \in 1..Len(tables[n].rows) :
            DOMAIN tables[n].rows[i] = name_set(tables[n].column_info)

\* C2: in every reachable state, no table's column_info holds the same
\* column name at two positions.
C2_ColumnNamesUnique ==
    \A n \in DOMAIN tables :
        \A i, j \in 1..Len(tables[n].column_info) :
            i # j => tables[n].column_info[i][1] # tables[n].column_info[j][1]

\* C3: in every reachable state, every value a row stores under a key is
\* None (the absent marker) or a value whose class is exactly a type the
\* table declares for that key; bool and int are different classes.
C3_TypeInvariant ==
    \A n \in DOMAIN tables :
        \A i \in 1..Len(tables[n].rows) :
            \A k \in DOMAIN tables[n].rows[i] \cap name_set(tables[n].column_info) :
                \/ tables[n].rows[i][k] = None
                \/ TypeOf(tables[n].rows[i][k])
                      \in declared_types(tables[n].column_info, k)

\* C4: a request that fails (a 4xx or 5xx response) leaves the catalog and
\* every table's column_info and rows exactly as they were.
C4_FailureAtomic ==
    [][last'.status >= 400 => tables' = tables]_vars

\* Two rows are the same row when their values are the same value (same
\* class, same content) under every column of the schema.
same_row(r1, r2, column_info) ==
    \A j \in 1..Len(column_info) :
        r1[column_info[j][1]] = r2[column_info[j][1]]

RECURSIVE first_occurrences(_, _)
first_occurrences(tbl, i) ==
    IF i > Len(tbl.rows) THEN <<>>
    ELSE IF \E j \in 1..(i-1) : same_row(tbl.rows[j], tbl.rows[i], tbl.column_info)
         THEN first_occurrences(tbl, i + 1)
         ELSE <<tbl.rows[i]>> \o first_occurrences(tbl, i + 1)

\* C7: after a successful remove_duplicates the rows are exactly the earlier
\* rows that are not the same row as some row before them, in their order
\* and with their values, and column_info is unchanged.
C7_KeepsFirstOccurrences ==
    [][(last'.op = "remove_duplicates" /\ last'.status = 200) =>
        LET old == tables[last'.table_name]
            new == tables'[last'.table_name]
        IN /\ new.column_info = old.column_info
           /\ new.rows = first_occurrences(old, 1)]_vars

\* C8: in every reachable state of every table, remove_duplicates applied
\* to the outcome of remove_duplicates gives that same table again.
C8_Idempotent ==
    \A n \in DOMAIN tables :
        LET once == remove_duplicates(tables[n])
        IN remove_duplicates(once.tbl).tbl = once.tbl

\* remove_duplicates has served the start-up table and dropped its repeated
\* row ("Alice", 25, "New York", False).
C8_Witness ==
    /\ last.op = "remove_duplicates" /\ last.status = 200
    /\ "Table1" \in DOMAIN tables
    /\ tables["Table1"] = [table EXCEPT !.rows = <<table.rows[1], table.rows[2],
                                                    table.rows[4]>>]

\* A value has a column's type when its class is exactly that type.
has_type(value, column_type) == TypeOf(value) = column_type

\* C9: an add_row that succeeds with as many values as columns, each of its
\* column's class, leaves column_info and the rows it found as they were and
\* adds one row at the end that holds, under the i-th column's name, the
\* i-th value given.
C9_AddRowAppends ==
    [][(/\ last'.op = "add_row" /\ last'.status = 201
        /\ Len(last'.values) = Len(tables[last'.table_name].column_info)
        /\ \A i \in 1..Len(last'.values) :
              has_type(last'.values[i],
                       tables[last'.table_name].column_info[i][2])) =>
        LET old == tables[last'.table_name]
            new == tables'[last'.table_name]
        IN /\ new.column_info = old.column_info
           /\ Len(new.rows) = Len(old.rows) + 1
           /\ \A i \in 1..Len(old.rows) : new.rows[i] = old.rows[i]
           /\ \A i \in 1..Len(old.column_info) :
                 /\ old.column_info[i][1] \in DOMAIN new.rows[Len(new.rows)]
                 /\ new.rows[Len(new.rows)][old.column_info[i][1]]
                      = last'.values[i]]_vars

\* C10: update_row on a table of the catalog with a row index that is not
\* below the number of rows (the index is never negative) answers with
\* IndexError whatever the values, and changes nothing.
C10_IndexCheckedFirst ==
    [][(/\ last'.op = "update_row"
        /\ last'.table_name \in DOMAIN tables
        /\ last'.row_index >= Len(tables[last'.table_name].rows)) =>
        (last'.exc = "IndexError" /\ last'.status = 400 /\ tables' = tables)]_vars

\* update_row(0, ...) was refused with IndexError on a table that has a
\* column and no rows.
C10_Witness ==
    /\ last.op = "update_row" /\ last.exc = "IndexError" /\ last.row_index = 0
    /\ last.table_name \in DOMAIN tables
    /\ tables[last.table_name].rows = <<>>
    /\ Len(tables[last.table_name].column_info) = 1

\* C11: after every add_row that succeeded, update_row on the index of the
\* row just added (the last one) with the same values succeeds and gives the
\* same table, row for row.
C11_UpdateAfterInsert ==
    (last.op = "add_row" /\ last.status = 201) =>
        LET tbl == tables[last.table_name]
            u == update_row(tbl, Len(tbl.rows) - 1, last.values)
        IN u.exc = "" /\ u.tbl = tbl

\* add_row has put a second row of two values into a table of two columns.
C11_Witness ==
    /\ last.op = "add_row" /\ last.status = 201 /\ Len(last.values) = 2
    /\ Len(tables[last.table_name].rows) = 2
    /\ update_row(tables[last.table_name], 1, last.values).exc = ""

\* C12: delete_row with an index below the number of rows succeeds; the
\* table then has one row less, the rows before the index are where they
\* were, every row after it is one position lower with its content, and
\* column_info is unchanged.
C12_DeleteRowShifts ==
    [][(/\ last'.op = "delete_row"
        /\ last'.table_name \in DOMAIN tables
        /\ last'.row_index >= 0
        /\ last'.row_index < Len(tables[last'.table_name].rows)) =>
        LET old == tables[last'.table_name]
            new == tables'[last'.table_name]
            i == last'.row_index
        IN /\ last'.status = 200
           /\ new.column_info = old.column_info
           /\ Len(new.rows) = Len(old.rows) - 1
           /\ \A j \in 1..i : new.rows[j] = old.rows[j]
           /\ \A j \in (i + 2)..Len(old.rows) : new.rows[j - 1] = old.rows[j]]_vars

\* delete_row(1) has removed the second of the four start-up rows.
C12_Witness ==
    /\ last.op = "delete_row" /\ last.status = 200 /\ last.row_index = 1
    /\ "Table1" \in DOMAIN tables
    /\ tables["Table1"] = [table EXCEPT !.rows = <<table.rows[1], table.rows[3],
                                                    table.rows[4]>>]

\* C13: delete_row on a table of the catalog with an index that is negative
\* or not below the number of rows (any index, when the table has no rows)
\* is answered 404 and removes nothing; an index that is too large is
\* refused with IndexError.
C13_DeleteRowOutOfRange ==
    [][(/\ last'.op = "delete_row"
        /\ last'.table_name \in DOMAIN tables
        /\ \/ last'.row_index < 0
           \/ last'.row_index >= Len(tables[last'.table_name].rows)) =>
        /\ last'.status = 404
        /\ tables' = tables
        /\ last'.row_index >= 0 => last'.exc = "IndexError"]_vars

\* delete_row(0) was refused with IndexError on the start-up table after all
\* its rows had been deleted.
C13_Witness ==
    /\ last.op = "delete_row" /\ last.status = 404 /\ last.exc = "IndexError"
    /\ last.row_index = 0
    /\ "Table1" \in DOMAIN tables
    /\ tables["Table1"] = DynamicTable(table_info)

\* C14: in every reachable state of every table, for a column name the
\* schema does not hold, add_column followed by delete_column of that name
\* both succeed and give back the table: its column_info in order and its
\* rows in order, each with the keys and values it had.
C14_ColumnRoundTrip ==
    \A n \in DOMAIN tables :
        \A c \in InputColumns :
            c[1] \notin name_set(tables[n].column_info) =>
                LET a == add_column(tables[n], c[1], c[2])
                    d == delete_column(a.tbl, c[1])
                IN a.exc = "" /\ d.exc = "" /\ d.tbl = tables[n]

\* C15: an add_column that succeeds puts the new (name, type) at the end of
\* column_info and leaves the columns before it as they were; the rows keep
\* their number and order, each row gains the new key with the value None
\* and keeps its value under every column the table had.
C15_AddColumnExtends ==
    [][(last'.op = "add_column" /\ last'.status = 201) =>
        LET old == tables[last'.table_name]
            new == tables'[last'.table_name]
            c == last'.column_name
        IN /\ new.column_info = Append(old.column_info, <<c, last'.column_type>>)
           /\ Len(new.rows) = Len(old.rows)
           /\ \A i \in 1..Len(old.rows) :
                 /\ DOMAIN new.rows[i] = DOMAIN old.rows[i] \cup {c}
                 /\ new.rows[i][c] = None
                 /\ \A k \in name_set(old.column_info) \cap DOMAIN old.rows[i] :
                       new.rows[i][k] = old.rows[i][k]]_vars

\* add_column has added a second column to a table that holds a row.
C15_Witness ==
    /\ last.op = "add_column" /\ last.status = 201
    /\ Len(tables[last.table_name].column_info) = 2
    /\ Len(tables[last.table_name].rows) >= 1
    /\ tables[last.table_name].rows[1][last.column_name] = None

\* C16: add_table with a name the catalog holds fails with status 400 and
\* leaves the catalog and the table of that name as they were; add_table
\* with a name the catalog does not hold, when it is given columns, binds
\* the name to a table of these columns and no rows and leaves every other
\* binding as it was (a request without columns is refused as incomplete).
C16_AddTableNeverReplaces ==
    [][last'.op = "add_table" =>
        LET n == last'.table_name IN
        IF n \in DOMAIN tables
        THEN /\ last'.status = 400
             /\ last'.msg \in {"table already exists", "required"}
             /\ tables' = tables
        ELSE IF last'.status = 201
        THEN /\ DOMAIN tables' = DOMAIN tables \cup {n}
             /\ tables'[n].column_info = last'.column_info
             /\ tables'[n].rows = <<>>
             /\ \A m \in DOMAIN tables : tables'[m] = tables[m]
        ELSE /\ last'.status = 400 /\ last'.msg = "required"
             /\ tables' = tables]_vars

\* add_table("Table1") was refused while the start-up table holds its rows.
C16_Witness ==
    /\ last.op = "add_table" /\ last.status = 400
    /\ last.msg = "table already exists"
    /\ "Table1" \in DOMAIN tables
    /\ tables["Table1"] = table

\* C17: remove_table of a name the catalog does not hold is answered 404;
\* remove_table of a name it holds removes that binding and no other; every
\* request on a table, addressed to a name the catalog does not hold, is
\* answered 404 and changes nothing; and a name comes into the catalog only
\* by an add_table that succeeds, bound to a table of the columns given
\* and no rows.
C17_RemoveTableLifecycle ==
    [][LET n == last'.table_name IN
       /\ (last'.op = "remove_table" /\ n \notin DOMAIN tables) =>
             (last'.status = 404 /\ tables' = tables)
       /\ (last'.op = "remove_table" /\ n \in DOMAIN tables) =>
             /\ last'.status = 200
             /\ DOMAIN tables' = DOMAIN tables \ {n}
             /\ \A m \in DOMAIN tables' : tables'[m] = tables[m]
       /\ (last'.op \notin {"add_table", "remove_table"} /\ n \notin DOMAIN tables) =>
             (last'.status = 404 /\ tables' = tables)
       /\ \A m \in DOMAIN tables' \ DOMAIN tables :
             /\ last'.op = "add_table" /\ last'.status = 201 /\ m = n
             /\ tables'[m] = [column_info |-> last'.column_info, rows |-> <<>>]]_vars

\* "Table1", removed, was created again with one column: it has no rows.
C17_Witness ==
    /\ last.op = "add_table" /\ last.status = 201
    /\ "Table1" \in DOMAIN tables
    /\ tables["Table1"] = [column_info |-> <<<<"Age", "int">>>>, rows |-> <<>>]

(***************************************************************************)
(* Handlers in parallel.  app.run serves each request on a thread of its   *)
(* own and the code takes no lock, so the statements of two DynamicTable   *)
(* methods interleave.  A step below is one statement or one turn of a     *)
(* loop; CPython may switch threads more finely still, between bytecodes,  *)
(* so every interleaving here is one the interpreter can produce.  Each    *)
(* thread has resolved "Table1" (dynamic_table = database.tables[name])    *)
(* and serves one request on it.  A `for` loop holds the list object it    *)
(* iterates and its position; remove_duplicates binds self.rows to a new   *)
(* list object, while loops that began earlier go on in the old one.       *)
(***************************************************************************)
Email == <<"Email", "str">>
NewRow == <<"'Bob'", "22", "'New York'", "True">>

\* The requests the threads may serve.
ConcRequests ==
    LET req == [op |-> "", column_name |-> "", column_type |-> "",
                values |-> <<>>, row_index |-> 0]
    IN {[req EXCEPT !.op = "add_column", !.column_name = c[1], !.column_type = c[2]] :
            c \in {Email, table_info[2]}}
       \cup {[req EXCEPT !.op = "delete_column", !.column_name = c] :
            c \in {"City", Email[1]}}
       \cup {[req EXCEPT !.op = "add_row", !.values = v] :
            v \in {NewRow, NewRow \o <<"'Alice'">>, SubSeq(NewRow, 1, 2) \o <<"False">>}}
       \cup {[req EXCEPT !.op = "update_row", !.row_index = Len(DemoRows) - 1,
                         !.values = v] :
            v \in {NewRow, NewRow \o <<"'Alice'">>, SubSeq(NewRow, 1, 2) \o <<"False">>}}
       \cup {[req EXCEPT !.op = "delete_row", !.row_index = i] :
            i \in {0, Len(DemoRows) - 1}}
       \cup {[req EXCEPT !.op = "remove_duplicates"]}

first_pc(op) ==
    CASE op = "add_column" -> "ac_check"
      [] op = "delete_column" -> "dc_check"
      [] op = "add_row" -> "ar_len"
      [] op = "update_row" -> "ur_index"
      [] op = "delete_row" -> "dr_del"
      [] op = "remove_duplicates" -> "rd_iter"

Done(s, status, exc) == [s EXCEPT !.pc = "done", !.status = status, !.exc = exc]

Goto(s, pc) == [s EXCEPT !.pc = pc]

Set(t, s) ==
    /\ thread' = [thread EXCEPT ![t] = s]
    /\ UNCHANGED <<vars, catvars>>

\* The request arrives and its handler calls the table's method.
Start(t) ==
    /\ thread[t].pc = "idle"
    /\ \E r \in ConcRequests :
          Set(t, [IdleThread EXCEPT !.op = r.op, !.column_name = r.column_name,
                      !.column_type = r.column_type, !.values = r.values,
                      !.row_index = r.row_index, !.pc = first_pc(r.op)])
    /\ UNCHANGED <<self_column_info, self_rows, lists, dicts>>

---------------------------------------------------------------------------
\* add_column, line 9
ac_check(t) ==
    /\ thread[t].pc = "ac_check"
    /\ Set(t, IF thread[t].column_name \in name_set(self_column_info)
               THEN Done(thread[t], 400, "ValueError")
               ELSE Goto(thread[t], "ac_append"))
    /\ UNCHANGED <<self_column_info, self_rows, lists, dicts>>

\* line 12
ac_append(t) ==
    /\ thread[t].pc = "ac_append"
    /\ self_column_info' = Append(self_column_info,
                                  <<thread[t].column_name, thread[t].column_type>>)
    /\ Set(t, Goto(thread[t], "ac_iter"))
    /\ UNCHANGED <<self_rows, lists, dicts>>

\* line 14: the iterator over the list self.rows is bound to now
ac_iter(t) ==
    /\ thread[t].pc = "ac_iter"
    /\ Set(t, [thread[t] EXCEPT !.pc = "ac_loop", !.it_list = self_rows, !.it_i = 0])
    /\ UNCHANGED <<self_column_info, self_rows, lists, dicts>>

\* lines 14-15, one row
ac_loop(t) ==
    LET s == thread[t] IN
    /\ s.pc = "ac_loop"
    /\ IF s.it_i < Len(lists[s.it_list])
       THEN /\ dicts' = [dicts EXCEPT ![lists[s.it_list][s.it_i + 1]] =
                            dict_set(@, s.column_name, None)]
            /\ Set(t, [s EXCEPT !.it_i = @ + 1])
       ELSE /\ Set(t, Done(s, 201, ""))
            /\ UNCHANGED dicts
    /\ UNCHANGED <<self_column_info, self_rows, lists>>

---------------------------------------------------------------------------
\* delete_column, line 18
dc_check(t) ==
    /\ thread[t].pc = "dc_check"
    /\ Set(t, IF thread[t].column_name \notin name_set(self_column_info)
               THEN Done(thread[t], 400, "ValueError")
               ELSE Goto(thread[t], "dc_index"))
    /\ UNCHANGED <<self_column_info, self_rows, lists, dicts>>

\* line 21: list.index raises ValueError when the name is gone
dc_index(t) ==
    LET s == thread[t]
        at == {i \in 1..Len(self_column_info) : self_column_info[i][1] = s.column_name}
    IN
    /\ s.pc = "dc_index"
    /\ Set(t, IF at = {} THEN Done(s, 400, "ValueError")
               ELSE [s EXCEPT !.pc = "dc_del",
                              !.index = CHOOSE i \in at : \A j \in at : i <= j])
    /\ UNCHANGED <<self_column_info, self_rows, lists, dicts>>

\* line 22: del self.column_info[index] removes whatever is at index now
dc_del(t) ==
    LET s == thread[t] IN
    /\ s.pc = "dc_del"
    /\ IF s.index > Len(self_column_info)
       THEN /\ Set(t, Done(s, 500, "IndexError"))
            /\ UNCHANGED self_column_info
       ELSE /\ self_column_info' =
                  [i \in 1..(Len(self_column_info) - 1) |->
                      IF i < s.index THEN self_column_info[i]
                      ELSE self_column_info[i + 1]]
            /\ Set(t, Goto(s, "dc_iter"))
    /\ UNCHANGED <<self_rows, lists, dicts>>

\* line 24
dc_iter(t) ==
    /\ thread[t].pc = "dc_iter"
    /\ Set(t, [thread[t] EXCEPT !.pc = "dc_loop", !.it_list = self_rows, !.it_i = 0])
    /\ UNCHANGED <<self_column_info, self_rows, lists, dicts>>

\* lines 24-25, one row: del row[column_name] raises KeyError
dc_loop(t) ==
    LET s == thread[t] IN
    /\ s.pc = "dc_loop"
    /\ IF s.it_i >= Len(lists[s.it_list])
       THEN /\ Set(t, Done(s, 200, ""))
            /\ UNCHANGED dicts
       ELSE IF s.column_name \notin DOMAIN dicts[lists[s.it_list][s.it_i + 1]]
       THEN /\ Set(t, Done(s, 500, "KeyError"))
            /\ UNCHANGED dicts
       ELSE /\ dicts' = [dicts EXCEPT ![lists[s.it_list][s.it_i + 1]] =
                            dict_del(@, s.column_name)]
            /\ Set(t, [s EXCEPT !.it_i = @ + 1])
    /\ UNCHANGED <<self_column_info, self_rows, lists>>

---------------------------------------------------------------------------
\* add_row line 28, update_row line 45
check_len(s, next) ==
    IF Len(s.values) # Len(self_column_info)
    THEN Done(s, 400, "ValueError")
    ELSE [s EXCEPT !.pc = next, !.it_i = 0, !.validated = <<>>]

\* add_row lines 32-36, update_row lines 49-53, one column: enumerate reads
\* the list self.column_info as it is now; values[i] raises IndexError
validate_one(s, next) ==
    IF s.it_i >= Len(self_column_info) THEN Goto(s, next)
    ELSE IF s.it_i >= Len(s.values) THEN Done(s, 500, "IndexError")
    ELSE IF ~isinstance(s.values[s.it_i + 1], self_column_info[s.it_i + 1][2])
    THEN Done(s, 400, "ValueError")
    ELSE [s EXCEPT !.it_i = @ + 1, !.validated = Append(@, s.values[s.it_i + 1])]

\* add_row line 38, update_row line 55 (its right-hand side)
zip_row(s, next) ==
    [s EXCEPT !.pc = next,
              !.row = dict_zip(names_of(self_column_info), s.validated)]

ar_len(t) ==
    /\ thread[t].pc = "ar_len"
    /\ Set(t, check_len(thread[t], "ar_loop"))
    /\ UNCHANGED <<self_column_info, self_rows, lists, dicts>>

ar_loop(t) ==
    /\ thread[t].pc = "ar_loop"
    /\ Set(t, validate_one(thread[t], "ar_zip"))
    /\ UNCHANGED <<self_column_info, self_rows, lists, dicts>>

ar_zip(t) ==
    /\ thread[t].pc = "ar_zip"
    /\ Set(t, zip_row(thread[t], "ar_append"))
    /\ UNCHANGED <<self_column_info, self_rows, lists, dicts>>

\* line 39: self.rows.append(row)
ar_append(t) ==
    /\ thread[t].pc = "ar_append"
    /\ dicts' = Append(dicts, thread[t].row)
    /\ lists' = [lists EXCEPT ![self_rows] = Append(@, Len(dicts) + 1)]
    /\ Set(t, Done(thread[t], 201, ""))
    /\ UNCHANGED <<self_column_info, self_rows>>

---------------------------------------------------------------------------
\* update_row, line 42 (the route's row index is never negative)
ur_index(t) ==
    /\ thread[t].pc = "ur_index"
    /\ Set(t, IF thread[t].row_index >= Len(lists[self_rows])
               THEN Done(thread[t], 400, "IndexError")
               ELSE Goto(thread[t], "ur_len"))
    /\ UNCHANGED <<self_column_info, self_rows, lists, dicts>>

ur_len(t) ==
    /\ thread[t].pc = "ur_len"
    /\ Set(t, check_len(thread[t], "ur_loop"))
    /\ UNCHANGED <<self_column_info, self_rows, lists, dicts>>

ur_loop(t) ==
    /\ thread[t].pc = "ur_loop"
    /\ Set(t, validate_one(thread[t], "ur_zip"))
    /\ UNCHANGED <<self_column_info, self_rows, lists, dicts>>

ur_zip(t) ==
    /\ thread[t].pc = "ur_zip"
    /\ Set(t, zip_row(thread[t], "ur_store"))
    /\ UNCHANGED <<self_column_info, self_rows, lists, dicts>>

\* line 55: self.rows[row_index] = ... raises IndexError on a shorter list
ur_store(t) ==
    LET s == thread[t] IN
    /\ s.pc = "ur_store"
    /\ IF s.row_index >= Len(lists[self_rows])
       THEN /\ Set(t, Done(s, 400, "IndexError"))
            /\ UNCHANGED <<lists, dicts>>
       ELSE /\ dicts' = Append(dicts, s.row)
            /\ lists' = [lists EXCEPT ![self_rows][s.row_index + 1] = Len(dicts) + 1]
            /\ Set(t, Done(s, 200, ""))
    /\ UNCHANGED <<self_column_info, self_rows>>

---------------------------------------------------------------------------
\* the route delete_row, line 221
dr_del(t) ==
    LET s == thread[t]
        l == lists[self_rows]
    IN
    /\ s.pc = "dr_del"
    /\ IF s.row_index >= Len(l)
       THEN /\ Set(t, Done(s, 404, "IndexError"))
            /\ UNCHANGED lists
       ELSE /\ lists' = [lists EXCEPT ![self_rows] =
                            [i \in 1..(Len(l) - 1) |->
                                IF i <= s.row_index THEN l[i] ELSE l[i + 1]]]
            /\ Set(t, Done(s, 200, ""))
    /\ UNCHANGED <<self_column_info, self_rows, dicts>>

---------------------------------------------------------------------------
\* remove_duplicates, lines 69-72
rd_iter(t) ==
    /\ thread[t].pc = "rd_iter"
    /\ Set(t, [thread[t] EXCEPT !.pc = "rd_loop", !.it_list = self_rows, !.it_i = 0,
                                !.seen_rows = {}, !.unique_rows = <<>>])
    /\ UNCHANGED <<self_column_info, self_rows, lists, dicts>>

\* lines 72-76, one row; unique_rows holds the row objects themselves
rd_loop(t) ==
    LET s == thread[t] IN
    /\ s.pc = "rd_loop"
    /\ Set(t, IF s.it_i >= Len(lists[s.it_list]) THEN Goto(s, "rd_assign")
               ELSE LET r == lists[s.it_list][s.it_i + 1] IN
                    IF ~(name_set(self_column_info) \subseteq DOMAIN dicts[r])
                    THEN Done(s, 500, "KeyError")
                    ELSE LET kv == key_values(dicts[r], self_column_info) IN
                         IF kv \in s.seen_rows THEN [s EXCEPT !.it_i = @ + 1]
                         ELSE [s EXCEPT !.it_i = @ + 1,
                                        !.seen_rows = @ \cup {kv},
                                        !.unique_rows = Append(@, r)])
    /\ UNCHANGED <<self_column_info, self_rows, lists, dicts>>

\* line 78: self.rows = unique_rows, a new list object
rd_assign(t) ==
    /\ thread[t].pc = "rd_assign"
    /\ lists' = Append(lists, thread[t].unique_rows)
    /\ self_rows' = Len(lists) + 1
    /\ Set(t, Done(thread[t], 200, ""))
    /\ UNCHANGED <<self_column_info, dicts>>

ConcNext ==
    \E t \in Threads :
        \/ Start(t)
        \/ ac_check(t) \/ ac_append(t) \/ ac_iter(t) \/ ac_loop(t)
        \/ dc_check(t) \/ dc_index(t) \/ dc_del(t) \/ dc_iter(t) \/ dc_loop(t)
        \/ ar_len(t) \/ ar_loop(t) \/ ar_zip(t) \/ ar_append(t)
        \/ ur_index(t) \/ ur_len(t) \/ ur_loop(t) \/ ur_zip(t) \/ ur_store(t)
        \/ dr_del(t)
        \/ rd_iter(t) \/ rd_loop(t) \/ rd_assign(t)

SpecConc == StartUp /\ [][ConcNext]_<<vars, cvars>>

(***************************************************************************)
(* Properties of the parallel handlers (specification SpecConc).           *)
(***************************************************************************)
\* The table as a request that runs alone finds it.
ConcTable ==
    [column_info |-> self_column_info,
     rows |-> [i \in 1..Len(lists[self_rows]) |-> dicts[lists[self_rows][i]]]]

Quiescent == \A t \in Threads : thread[t].pc \in {"idle", "done"}

\* C5: whenever no handler is in progress, every row of the table has
\* exactly the table's current column names as its key set.
C5_QuiescentLockstep ==
    Quiescent =>
        \A i \in 1..Len(ConcTable.rows) :
            DOMAIN ConcTable.rows[i] = name_set(ConcTable.column_info)

\* What a request does to a table when it runs alone.
apply(tbl, r) ==
    CASE r.op = "add_column" -> add_column(tbl, r.column_name, r.column_type).tbl
      [] r.op = "delete_column" -> delete_column(tbl, r.column_name).tbl
      [] r.op = "add_row" -> add_row(tbl, r.values).tbl
      [] r.op = "update_row" -> update_row(tbl, r.row_index, r.values).tbl
      [] r.op = "delete_row" -> delete_row(tbl, r.row_index).tbl
      [] r.op = "remove_duplicates" -> remove_duplicates(tbl).tbl

\* C6: when both handlers have ended, the table's column_info and rows are
\* what the two requests give when run one after the other, in one of the
\* two orders, on the table they started on.
C6_Serializable ==
    (\A t \in Threads : thread[t].pc = "done") =>
        \/ ConcTable = apply(apply(table, thread[1]), thread[2])
        \/ ConcTable = apply(apply(table, thread[2]), thread[1])

(***************************************************************************)
(* The catalog under handlers in parallel.  Every route reads               *)
(* database.tables more than once (the presence check, then the lookup or   *)
(* the store) and nothing makes these reads one step, so other handlers'    *)
(* steps come between them.  A step below is one access to database.tables; *)
(* the method of the table a handler has obtained runs here as one step     *)
(* (its own statements interleave in SpecConc).  Tables and lists are       *)
(* objects: a handler that has looked a table up holds that object,         *)
(* whatever the name is bound to later.                                     *)
(***************************************************************************)
NewColumns == << <<"Age", "int">> >>
OneValue == <<"1">>
TableRoutes == {"get_table", "add_row", "update_row", "delete_row",
                "add_column", "delete_column", "remove_duplicates"}

\* The requests the handlers may serve.
CatRequests ==
    LET req == [op |-> "", table_name |-> "", column_info |-> <<>>,
                column_name |-> "", column_type |-> "", values |-> <<>>,
                row_index |-> 0]
    IN {[req EXCEPT !.op = "add_table", !.table_name = n, !.column_info = NewColumns] :
            n \in {"Table1", "Table2"}}
       \cup {[req EXCEPT !.op = "add_table", !.table_name = "Table2"]}
       \cup {[req EXCEPT !.op = "remove_table", !.table_name = "Table1"]}
       \cup {[req EXCEPT !.op = o, !.table_name = "Table1"] :
            o \in {"get_table", "remove_duplicates"}}
       \cup {[req EXCEPT !.op = o, !.table_name = "Table2", !.values = OneValue] :
            o \in {"add_row", "update_row"}}
       \cup {[req EXCEPT !.op = "delete_row", !.table_name = "Table2"]}
       \cup {[req EXCEPT !.op = "add_column", !.table_name = "Table2",
                         !.column_name = Email[1], !.column_type = Email[2]]}
       \cup {[req EXCEPT !.op = "delete_column", !.table_name = "Table2",
                         !.column_name = NewColumns[1][1]]}

\* Thread 1 serves any of the requests, thread 2 those of the catalog
\* (two table methods side by side are the subject of SpecConc).
RequestsOf(t) ==
    IF t = 1 THEN CatRequests
    ELSE {r \in CatRequests : r.op \in {"add_table", "remove_table"}}

cat_first_pc(op) ==
    CASE op = "add_table" -> "at_convert"
      [] op = "remove_table" -> "rm_check"
      [] OTHER -> "rt_check"

\* The lists a request creates when it succeeds.
lists_created(op) ==
    CASE op = "add_table" -> 2
      [] op = "remove_duplicates" -> 1
      [] OTHER -> 0

\* A list that shares the object of a list with the same elements
new_list_shared(store, content) ==
    IF \E i \in 1..Len(store) : store[i] = content
    THEN CHOOSE i \in 1..Len(store) : store[i] = content
    ELSE Len(store) + 1

\* [] and the list a statement builds are new objects: none in the store.
new_list(store, content) == Len(store) + 1

list_put(store, id, content) ==
    IF id > Len(store) THEN Append(store, content)
    ELSE [store EXCEPT ![id] = content]

\* The table an object is: the elements of its two lists.
table_of(tables_, lists_, o) ==
    [column_info |-> lists_[tables_[o].column_info],
     rows |-> lists_[tables_[o].rows]]

HEnd(h, status, exc) == [h EXCEPT !.pc = "done", !.status = status, !.exc = exc]

\* The request arrives at a handler thread that is free.
Accept(t) ==
    /\ handler[t].pc \in {"idle", "done"}
    /\ \E r \in RequestsOf(t) :
          /\ Len(heap_lists) + lists_created(r.op) <= MaxLists
          /\ handler' = [handler EXCEPT ![t] =
                [IdleHandler EXCEPT !.pc = cat_first_pc(r.op), !.op = r.op,
                     !.table_name = r.table_name, !.column_info = r.column_info,
                     !.column_name = r.column_name, !.column_type = r.column_type,
                     !.values = r.values, !.row_index = r.row_index]]
    /\ UNCHANGED <<database_tables, heap_tables, heap_lists, vars, cvars>>

\* The table routes, `if table_name not in database.tables` (line 185)
rt_check(t) ==
    LET h == handler[t] IN
    /\ h.pc = "rt_check"
    /\ handler' = [handler EXCEPT ![t] =
          IF h.table_name \notin DOMAIN database_tables THEN HEnd(h, 404, "")
          ELSE [h EXCEPT !.pc = "rt_lookup"]]
    /\ UNCHANGED <<database_tables, heap_tables, heap_lists, vars, cvars>>

\* `dynamic_table = database.tables[table_name]` (line 188): KeyError, which
\* no handler catches, when the name is gone
rt_lookup(t) ==
    LET h == handler[t] IN
    /\ h.pc = "rt_lookup"
    /\ handler' = [handler EXCEPT ![t] =
          IF h.table_name \notin DOMAIN database_tables THEN HEnd(h, 500, "KeyError")
          ELSE [h EXCEPT !.pc = "rt_call",
                         !.dynamic_table = database_tables[h.table_name]]]
    /\ UNCHANGED <<database_tables, heap_tables, heap_lists, vars, cvars>>

\* What the route calls on the table it holds.
method(tbl, h) ==
    CASE h.op = "add_row" -> add_row(tbl, h.values)
      [] h.op = "update_row" -> update_row(tbl, h.row_index, h.values)
      [] h.op = "delete_row" -> delete_row(tbl, h.row_index)
      [] h.op = "add_column" -> add_column(tbl, h.column_name, h.column_type)
      [] h.op = "delete_column" -> delete_column(tbl, h.column_name)
      [] h.op = "remove_duplicates" -> remove_duplicates(tbl)
      [] h.op = "get_table" -> Ok(tbl)

\* The status the route answers for the outcome r of the method.
status_of(op, r) ==
    IF r.exc = "" THEN (IF op \in {"add_row", "add_column"} THEN 201 ELSE 200)
    ELSE IF op = "delete_row" THEN (IF r.exc = "IndexError" THEN 404 ELSE 500)
    ELSE IF r.exc = "ValueError" THEN 400
    ELSE IF r.exc = "IndexError" /\ op = "update_row" THEN 400
    ELSE 500

\* The method runs on the object the handler holds: it changes the table's
\* two lists in place; remove_duplicates binds self.rows to a new list.
rt_call(t) ==
    LET h == handler[t]
        o == h.dynamic_table
        r == method(table_of(heap_tables, heap_lists, o), h)
        unique_rows == new_list(heap_lists, r.tbl.rows)
    IN
    /\ h.pc = "rt_call"
    /\ h.op = "add_row" => Len(heap_lists[heap_tables[o].rows]) < MaxRows
    /\ IF h.op = "remove_duplicates" /\ r.exc = ""
       THEN /\ heap_lists' = list_put(heap_lists, unique_rows, r.tbl.rows)
            /\ heap_tables' = [heap_tables EXCEPT ![o].rows = unique_rows]
       ELSE /\ heap_lists' = [heap_lists EXCEPT
                                 ![heap_tables[o].column_info] = r.tbl.column_info,
                                 ![heap_tables[o].rows] = r.tbl.rows]
            /\ UNCHANGED heap_tables
    /\ handler' = [handler EXCEPT ![t] = HEnd(h, status_of(h.op, r), r.exc)]
    /\ UNCHANGED <<database_tables, vars, cvars>>

\* add_table (route), lines 154-162: the columns are converted into a list
\* that is the handler's own until DynamicTable keeps it
at_convert(t) ==
    LET h == handler[t] IN
    /\ h.pc = "at_convert"
    /\ handler' = [handler EXCEPT ![t] =
          IF h.column_info = <<>> THEN HEnd(h, 400, "")
          ELSE [h EXCEPT !.pc = "at_check"]]
    /\ UNCHANGED <<database_tables, heap_tables, heap_lists, vars, cvars>>

\* Database.add_table, line 85
at_check(t) ==
    LET h == handler[t] IN
    /\ h.pc = "at_check"
    /\ handler' = [handler EXCEPT ![t] =
          IF h.table_name \in DOMAIN database_tables THEN HEnd(h, 400, "ValueError")
          ELSE [h EXCEPT !.pc = "at_store"]]
    /\ UNCHANGED <<database_tables, heap_tables, heap_lists, vars, cvars>>

\* line 88: self.tables[table_name] = DynamicTable(column_info), whatever
\* the name is bound to by now
at_store(t) ==
    LET h == handler[t]
        converted_column_info == new_list(heap_lists, h.column_info)
        lists1 == list_put(heap_lists, converted_column_info, h.column_info)
        rows == new_list(lists1, <<>>)
        o == Len(heap_tables) + 1
    IN
    /\ h.pc = "at_store"
    /\ heap_lists' = list_put(lists1, rows, <<>>)
    /\ heap_tables' = Append(heap_tables,
                             [column_info |-> converted_column_info, rows |-> rows])
    /\ database_tables' = dict_put(database_tables, h.table_name, o)
    /\ handler' = [handler EXCEPT ![t] =
                      HEnd([h EXCEPT !.dynamic_table = o], 201, "")]
    /\ UNCHANGED <<vars, cvars>>

\* remove_table (route), line 173
rm_check(t) ==
    LET h == handler[t] IN
    /\ h.pc = "rm_check"
    /\ handler' = [handler EXCEPT ![t] =
          IF h.table_name \notin DOMAIN database_tables THEN HEnd(h, 404, "")
          ELSE [h EXCEPT !.pc = "rm_check2"]]
    /\ UNCHANGED <<database_tables, heap_tables, heap_lists, vars, cvars>>

\* Database.remove_table, line 91
rm_check2(t) ==
    LET h == handler[t] IN
    /\ h.pc = "rm_check2"
    /\ handler' = [handler EXCEPT ![t] =
          IF h.table_name \notin DOMAIN database_tables THEN HEnd(h, 400, "ValueError")
          ELSE [h EXCEPT !.pc = "rm_del"]]
    /\ UNCHANGED <<database_tables, heap_tables, heap_lists, vars, cvars>>

\* line 94: del self.tables[table_name], KeyError when the name is gone
rm_del(t) ==
    LET h == handler[t] IN
    /\ h.pc = "rm_del"
    /\ IF h.table_name \notin DOMAIN database_tables
       THEN /\ handler' = [handler EXCEPT ![t] = HEnd(h, 500, "KeyError")]
            /\ UNCHANGED database_tables
       ELSE /\ database_tables' = [k \in DOMAIN database_tables \ {h.table_name} |->
                                      database_tables[k]]
            /\ handler' = [handler EXCEPT ![t] = HEnd(h, 200, "")]
    /\ UNCHANGED <<heap_tables, heap_lists, vars, cvars>>

CatNext ==
    \E t \in Threads :
        \/ Accept(t)
        \/ rt_check(t) \/ rt_lookup(t) \/ rt_call(t)
        \/ at_convert(t) \/ at_check(t) \/ at_store(t)
        \/ rm_check(t) \/ rm_check2(t) \/ rm_del(t)

SpecCat == StartUp /\ [][CatNext]_<<vars, cvars, catvars>>

(***************************************************************************)
(* Properties of the catalog (specification SpecCat).                      *)
(***************************************************************************)
\* C18: of the add_table calls for one name that run in parallel, one
\* reports success and the other is refused: the handlers never both end
\* add_table("Table2") with 201 ("Table2" is not in the catalog at start-up
\* and no request removes it), and an add_table that reports success has
\* bound a name that was free, so that it replaced no table, and no rows,
\* that another call had put there.
C18_OneAddTableSucceeds ==
    /\ [](~ \A t \in Threads :
              /\ handler[t].pc = "done" /\ handler[t].op = "add_table"
              /\ handler[t].table_name = "Table2" /\ handler[t].status = 201)
    /\ [][\A t \in Threads :
            (handler[t].pc = "at_store" /\ handler'[t].pc = "done") =>
                handler[t].table_name \notin DOMAIN database_tables]_catvars

\* C19: a table route that ends has either answered 404, the name not
\* being in the catalog, or obtained the table and called its method.
C19_ResolveOrNotFound ==
    \A t \in Threads :
        (handler[t].pc = "done" /\ handler[t].op \in TableRoutes) =>
            (handler[t].status = 404 \/ handler[t].dynamic_table # 0)

\* No two names of the catalog are bound to one DynamicTable object, and no
\* list object is the column_info or the rows of the tables of two names.
NoSharedStorage ==
    \A m1, m2 \in DOMAIN database_tables :
        m1 # m2 =>
            LET t1 == heap_tables[database_tables[m1]]
                t2 == heap_tables[database_tables[m2]]
            IN /\ database_tables[m1] # database_tables[m2]
               /\ {t1.column_info, t1.rows} \cap {t2.column_info, t2.rows} = {}

\* C20: a column or row method called for a request on one name leaves the
\* names of the catalog and their bindings as they are, and the column_info
\* and rows of the table of every other name unchanged; and in every state
\* the tables of two names share no object, also when separate add_table
\* calls gave them equal column lists.
C20_TablesIsolated ==
    /\ []NoSharedStorage
    /\ [][\A t \in Threads :
            (/\ handler[t].pc = "rt_call" /\ handler'[t].pc = "done"
             /\ handler[t].op # "get_table") =>
                /\ database_tables' = database_tables
                /\ \A m \in DOMAIN database_tables \ {handler[t].table_name} :
                      table_of(heap_tables', heap_lists', database_tables[m])
                        = table_of(heap_tables, heap_lists, database_tables[m])]_catvars

\* "Table1" and "Table2" were both created by add_table with the same one
\* column, and add_row has put a row into "Table2" only.
C20_Witness ==
    /\ DOMAIN database_tables = {"Table1", "Table2"}
    /\ table_of(heap_tables, heap_lists, database_tables["Table1"])
          = DynamicTable(NewColumns)
    /\ table_of(heap_tables, heap_lists, database_tables["Table2"])
          = add_row(DynamicTable(NewColumns), OneValue).tbl
    /\ \E t \in Threads : /\ handler[t].pc = "done" /\ handler[t].op = "add_row"
                          /\ handler[t].status = 201

====
